---- MODULE Spec2Model ----
(***************************************************************************)
(* A model of kanisterio/errkit: the errkitError value and its four        *)
(* constructors (New, Wrap, WithStack, WithCause), the matching protocol   *)
(* (errors.Is / errors.Unwrap as aliased by the package), the detail       *)
(* normaliser ToErrorDetails, the ErrorList aggregate built by Append, and *)
(* the JSON codec (MarshalErrkitErrorToJSON, ErrorList.MarshalJSON,        *)
(* jsonError.UnmarshalJSON).                                               *)
(*                                                                         *)
(* Go pointers are addresses into `heap`; an ErrorList is a slice header   *)
(* (backing array, len, cap) over `arrays`.  Identity of an error is the   *)
(* identity of its interface value, never its text.                        *)
(*                                                                         *)
(* Further sections model the earlier revision of the package: its Error  *)
(* type with WithDetails and the exported JSONError; ToErrorDetails over   *)
(* the caller's own slice and map; lists that share a backing array; and   *)
(* the goroutines of the collector pattern, whose state is `procs`.        *)
(***************************************************************************)
EXTENDS Integers, Sequences, FiniteSets, TLC

VARIABLES heap, arrays, vals, last, calls, procs

vars == <<heap, arrays, vals, last, calls, procs>>

(***************************************************************************)
(* Bounds of the model.                                                    *)
(***************************************************************************)
MaxCalls == 3
MaxDetailLen == 4

(***************************************************************************)
(* Values of type `any` that callers pass as details.                      *)
(***************************************************************************)
EmptyMap == [x \in {} |-> 0]

AnyNil == [t |-> "nil", s |-> "", i |-> 0, m |-> EmptyMap]

AnyString(str) == [t |-> "string", s |-> str, i |-> 0, m |-> EmptyMap]

AnyInt(n) == [t |-> "int", s |-> "", i |-> n, m |-> EmptyMap]

AnyErrorDetails(kv) == [t |-> "map", s |-> "", i |-> 0, m |-> kv]

noVal == "NOVAL"

badKey == "BADKEY"

\* The ErrorDetails value: a Go map, which may be nil.
NilDetails == [isNil |-> TRUE, kv |-> EmptyMap]

MakeDetails(kv) == [isNil |-> FALSE, kv |-> kv]

\* m[k] = v of a Go map: a later write to the same key replaces the earlier.
MapPut(kv, k, v) == [x \in DOMAIN kv \cup {k} |-> IF x = k THEN v ELSE kv[x]]

Digit(d) == SubSeq("0123456789", d + 1, d + 1)

RECURSIVE Itoa(_)
Itoa(n) ==
    IF n < 0 THEN "-" \o Itoa(-n)
    ELSE IF n < 10 THEN Digit(n)
    ELSE Itoa(n \div 10) \o Digit(n % 10)

\* The keys the model's maps use, in the order fmt prints map keys (sorted).
KeyOrder == <<"k1", "k2">>

RECURSIVE Sprint(_)
RECURSIVE SprintMap(_, _)
\* fmt's %v of a map: map[k1:v1 k2:v2], keys sorted.
SprintMap(kv, i) ==
    IF i > Len(KeyOrder) THEN ""
    ELSE IF KeyOrder[i] \in DOMAIN kv
         THEN LET rest == SprintMap(kv, i + 1)
              IN  KeyOrder[i] \o ":" \o Sprint(kv[KeyOrder[i]])
                  \o (IF rest = "" THEN "" ELSE " " \o rest)
         ELSE SprintMap(kv, i + 1)

\* fmt's %v rendering of a detail value.
Sprint(v) ==
    CASE v.t = "string" -> v.s
      [] v.t = "int" -> Itoa(v.i)
      [] v.t = "nil" -> "<nil>"
      [] v.t = "map" -> "map[" \o SprintMap(v.m, 1) \o "]"

\* The key ToErrorDetails files a pair under.
DetailKey_plainText(name) == IF name.t = "string" THEN name.s ELSE Sprint(name)

DetailKey(name) ==
    IF name.t = "string" THEN name.s
    ELSE badKey \o ":(" \o Sprint(name) \o ")"

RECURSIVE DetailsLoop(_, _, _)
\* for i := 0; i < len(details); i += 2 { errorDetails[nameStr] = details[i+1] }
DetailsLoop(details, i, errorDetails) ==
    IF i > Len(details) THEN errorDetails
    ELSE DetailsLoop(details, i + 2,
                     MapPut(errorDetails, DetailKey(details[i]), details[i + 1]))

DetailsPad_dropsLast(details) ==
    IF Len(details) % 2 # 0 THEN SubSeq(details, 1, Len(details) - 1) ELSE details

\* if len(details)%2 != 0 { details = append(details, noVal) }
DetailsPad(details) ==
    IF Len(details) % 2 # 0 THEN Append(details, AnyString(noVal)) ELSE details

ToErrorDetails(details) ==
    IF Len(details) = 0 THEN NilDetails
    ELSE IF Len(details) = 1 /\ details[1].t = "map"
         THEN MakeDetails([k \in DOMAIN details[1].m |-> details[1].m[k]])
         ELSE MakeDetails(DetailsLoop(DetailsPad(details), 1, EmptyMap))

(***************************************************************************)
(* Inputs.                                                                 *)
(***************************************************************************)
Messages == {"not found", "disk full"}

DetailValues ==
    { AnyString("k1"), AnyString("k2"), AnyString("BADKEY:(123)"),
      AnyInt(123), AnyInt(456), AnyNil,
      AnyErrorDetails(MapPut(EmptyMap, "k1", AnyString("v"))) }

SeqsUpTo(S, n) == UNION { [1..k -> S] : k \in 0..n }

DetailArgLists == SeqsUpTo(DetailValues, MaxDetailLen)

(***************************************************************************)
(* Error values: the interface value `error`.  nil, a pointer to an object *)
(* of the heap, or an ErrorList slice header (backing array p, len n,      *)
(* cap c).                                                                 *)
(***************************************************************************)
Nil == [k |-> "nil", p |-> 0, n |-> 0, c |-> 0]

Ptr(a) == [k |-> "ptr", p |-> a, n |-> 0, c |-> 0]

ErrorList(a, len, cap) == [k |-> "list", p |-> a, n |-> len, c |-> cap]

\* What an error keeps of the call stack: the number of frames captured
\* and the frame of the caller (function, file as the runtime reports it,
\* line).  Errors that are not errkitErrors keep none.
NoFrame == [callers |-> 0, function |-> "", file |-> "", line |-> 0]

\* The frame of the n-th call of a program: every call stands on a line of
\* its own.
CallerFrame(n) ==
    [callers |-> 1, function |-> "main.run",
     file |-> "/home/dev/go/src/app/main.go", line |-> 10 + n]

\* The frame of the call being made.
Caller == CallerFrame(calls)

\* errors.New(text): a *errorString.
errorString(text) ==
    [type |-> "errorString", msg |-> text, error |-> Nil, cause |-> Nil,
     details |-> NilDetails, stack |-> NoFrame]

\* &testErrorType{message: msg}: the custom error type of the tests.
testErrorType(msg) ==
    [type |-> "testErrorType", msg |-> msg, error |-> Nil, cause |-> Nil,
     details |-> NilDetails, stack |-> NoFrame]

\* &errkitError{error: err, details: ToErrorDetails(details), stack: ...};
\* cause is nil.  runtime.Callers(stackDepth+1, result.stack) stores the one
\* frame of the constructor's caller.
newError(err, frame, details) ==
    [type |-> "errkitError", msg |-> "", error |-> err, cause |-> Nil,
     details |-> ToErrorDetails(details), stack |-> frame]

\* The members of an ErrorList value.
Members(ar, v) == SubSeq(ar[v.p], 1, v.n)

(***************************************************************************)
(* Text forms.                                                             *)
(***************************************************************************)
RECURSIVE Escape(_)
\* The body of strconv.Quote: '"' and '\' are escaped, newline and tab are
\* written \n and \t, every other printable character as it is.
Escape(str) ==
    IF Len(str) = 0 THEN ""
    ELSE LET ch == SubSeq(str, 1, 1)
             rest == Escape(SubSeq(str, 2, Len(str)))
         IN  IF ch = "\"" \/ ch = "\\" THEN "\\" \o ch \o rest
             ELSE IF ch = "\n" THEN "\\n" \o rest
             ELSE IF ch = "\t" THEN "\\t" \o rest
             ELSE ch \o rest

Quote(str) == "\"" \o Escape(str) \o "\""

RECURSIVE JSONEscape(_)
\* The string encoder of encoding/json as json.Marshal runs it (escapeHTML
\* on): '"' and '\' are escaped, newline and tab are written \n and \t,
\* and '<', '>', '&' are written \u003c, \u003e, \u0026.
JSONEscape(str) ==
    IF Len(str) = 0 THEN ""
    ELSE LET ch == SubSeq(str, 1, 1)
             rest == JSONEscape(SubSeq(str, 2, Len(str)))
         IN  IF ch = "\"" \/ ch = "\\" THEN "\\" \o ch \o rest
             ELSE IF ch = "\n" THEN "\\n" \o rest
             ELSE IF ch = "\t" THEN "\\t" \o rest
             ELSE IF ch = "<" THEN "\\u003c" \o rest
             ELSE IF ch = ">" THEN "\\u003e" \o rest
             ELSE IF ch = "&" THEN "\\u0026" \o rest
             ELSE ch \o rest

\* json.Marshal of a string.
JSONString(str) == "\"" \o JSONEscape(str) \o "\""

RECURSIVE JSONStrings(_, _)
JSONStrings(texts, i) ==
    IF i > Len(texts) THEN ""
    ELSE (IF i = 1 THEN "" ELSE ",") \o JSONString(texts[i])
         \o JSONStrings(texts, i + 1)

\* json.Marshal of a []string.
JSONStringArray(texts) == "[" \o JSONStrings(texts, 1) \o "]"

RECURSIVE Error(_, _, _)
RECURSIVE String(_, _, _, _)
\* ErrorList.String: '[' + the members' quoted Error() texts, comma separated + ']'
String(h, ar, members, i) ==
    IF i > Len(members) THEN ""
    ELSE (IF i = 1 THEN "" ELSE ",") \o Quote(Error(h, ar, members[i]))
         \o String(h, ar, members, i + 1)

Error_causeFirst(h, ar, err) ==
    IF err.k = "list" THEN "[" \o String(h, ar, Members(ar, err), 1) \o "]"
    ELSE LET o == h[err.p]
         IN  IF o.type = "errkitError"
             THEN IF o.cause = Nil THEN Error(h, ar, o.error)
                  ELSE Error(h, ar, o.cause) \o ": " \o Error(h, ar, o.error)
             ELSE o.msg

\* err.Error()
Error(h, ar, err) ==
    IF err.k = "list" THEN "[" \o String(h, ar, Members(ar, err), 1) \o "]"
    ELSE LET o == h[err.p]
         IN  IF o.type = "errkitError"
             THEN IF o.cause = Nil THEN Error(h, ar, o.error)
                  ELSE Error(h, ar, o.error) \o ": " \o Error(h, ar, o.cause)
             ELSE o.msg

\* (*errkitError).Message
Message(h, ar, e) == Error(h, ar, h[e.p].error)

\* (*errkitError).Details
Details(h, e) == h[e.p].details

(***************************************************************************)
(* The matching protocol: errors.Unwrap and errors.Is, under the names the *)
(* package gives them.                                                     *)
(***************************************************************************)
HasUnwrap(h, err) == err.k = "ptr" /\ h[err.p].type = "errkitError"

\* errors.Unwrap: the result of err's Unwrap method, nil when it has none.
Unwrap(h, err) == IF HasUnwrap(h, err) THEN h[err.p].cause ELSE Nil

\* reflect's Comparable of the dynamic type: pointers are, slices are not.
Comparable(v) == v.k # "list"

RECURSIVE Is(_, _, _, _)
RECURSIVE is(_, _, _, _, _)
RECURSIVE errkitError_Is(_, _, _, _)
RECURSIVE ErrorList_Is(_, _, _, _)
RECURSIVE IsMethod(_, _, _, _)

errkitError_Is_identityOnly(h, ar, e, target) == e = target

\* func (e *errkitError) Is(target error) bool
errkitError_Is(h, ar, e, target) ==
    IF target = Nil THEN FALSE
    ELSE Is(h, ar, h[e.p].error, target)

\* func (e ErrorList) Is(target error) bool
ErrorList_Is(h, ar, e, target) ==
    \E i \in 1 .. e.n : Is(h, ar, ar[e.p][i], target)

\* err.(interface{ Is(error) bool }): ok && x.Is(target)
IsMethod(h, ar, err, target) ==
    IF err.k = "list" THEN ErrorList_Is(h, ar, err, target)
    ELSE IF h[err.p].type = "errkitError" THEN errkitError_Is(h, ar, err, target)
    ELSE FALSE

is_noUnwrap(h, ar, err, target, isComparable) ==
    IF isComparable /\ err = target THEN TRUE
    ELSE IsMethod(h, ar, err, target)

\* The loop of errors.Is: equality when the target is comparable, then the
\* error's own Is method, then one step down its Unwrap.
is(h, ar, err, target, isComparable) ==
    IF isComparable /\ err = target THEN TRUE
    ELSE IF IsMethod(h, ar, err, target) THEN TRUE
    ELSE IF HasUnwrap(h, err)
         THEN LET u == Unwrap(h, err)
              IN  IF u = Nil THEN FALSE ELSE is(h, ar, u, target, isComparable)
         ELSE FALSE

Is(h, ar, err, target) ==
    IF err = Nil \/ target = Nil THEN err = target
    ELSE is(h, ar, err, target, Comparable(target))

(***************************************************************************)
(* errors.As.  The target is a pointer to a variable of some type; the     *)
(* model names the variable's type and yields the value As stores in it,   *)
(* Nil when As returns false (a stored value is never nil).                *)
(***************************************************************************)
\* The dynamic type of a non-nil error value.
TypeOf(h, err) == IF err.k = "list" THEN "ErrorList" ELSE h[err.p].type

\* The types a caller can declare the target variable with: the custom
\* error type of the tests, *errkitError, ErrorList and the interface error.
TargetTypes == {"testErrorType", "errkitError", "ErrorList", "error"}

\* reflectlite.TypeOf(err).AssignableTo(targetType)
AssignableTo(h, err, targetType) ==
    targetType = "error" \/ TypeOf(h, err) = targetType

RECURSIVE As(_, _, _, _)
RECURSIVE as(_, _, _, _)
RECURSIVE ErrorList_As(_, _, _, _, _)

ErrorList_As_lastMatch(h, ar, e, i, targetType) ==
    IF i > e.n THEN Nil
    ELSE LET later == ErrorList_As(h, ar, e, i + 1, targetType)
         IN  IF later # Nil THEN later ELSE As(h, ar, ar[e.p][i], targetType)

\* func (e ErrorList) As(target any) bool: the first member, from index i
\* on, that errors.As accepts.
ErrorList_As(h, ar, e, i, targetType) ==
    IF i > e.n THEN Nil
    ELSE LET found == As(h, ar, ar[e.p][i], targetType)
         IN  IF found # Nil THEN found
             ELSE ErrorList_As(h, ar, e, i + 1, targetType)

\* err.(interface{ As(any) bool }): of the types here only ErrorList has it.
AsMethod(h, ar, err, targetType) ==
    IF err.k = "list" THEN ErrorList_As(h, ar, err, 1, targetType) ELSE Nil

\* The loop of errors.As: assignability of err itself, then its own As
\* method, then one step down its Unwrap.
as(h, ar, err, targetType) ==
    IF AssignableTo(h, err, targetType) THEN err
    ELSE LET m == AsMethod(h, ar, err, targetType)
         IN  IF m # Nil THEN m
             ELSE IF HasUnwrap(h, err)
                  THEN LET u == Unwrap(h, err)
                       IN  IF u = Nil THEN Nil ELSE as(h, ar, u, targetType)
                  ELSE Nil

As(h, ar, err, targetType) ==
    IF err = Nil THEN Nil ELSE as(h, ar, err, targetType)

(***************************************************************************)
(* The JSON codec.  The bytes json.Marshal writes and json.Unmarshal reads *)
(* are kept as the JSON document they spell: null, a string, a number, an  *)
(* object (field name -> document) or an array.  A field left out by       *)
(* omitempty is a name missing from the object.                            *)
(***************************************************************************)
JNull == [t |-> "null", s |-> "", i |-> 0, m |-> EmptyMap, a |-> <<>>]
JString(str) == [JNull EXCEPT !.t = "string", !.s = str]
JNumber(n) == [JNull EXCEPT !.t = "number", !.i = n]
JObject(fields) == [JNull EXCEPT !.t = "object", !.m = fields]
JArray(items) == [JNull EXCEPT !.t = "array", !.a = items]

\* A struct field tagged omitempty: written unless the value is empty.
OmitEmpty(fields, name, doc, empty) ==
    IF empty THEN fields ELSE MapPut(fields, name, doc)

RECURSIVE MarshalAny(_)
\* json.Marshal of a detail value.
MarshalAny(v) ==
    CASE v.t = "string" -> JString(v.s)
      [] v.t = "int" -> JNumber(v.i)
      [] v.t = "nil" -> JNull
      [] v.t = "map" -> JObject([k \in DOMAIN v.m |-> MarshalAny(v.m[k])])

\* json.Marshal of an ErrorDetails map.
MarshalDetails(details) ==
    JObject([k \in DOMAIN details.kv |-> MarshalAny(details.kv[k])])

RECURSIVE GoSrcEnd(_, _)
\* The index just after the first "/go/src/" of file, from index i on;
\* 0 when there is none.
GoSrcEnd(file, i) ==
    IF i + 7 > Len(file) THEN 0
    ELSE IF SubSeq(file, i, i + 7) = "/go/src/" THEN i + 8
    ELSE GoSrcEnd(file, i + 1)

\* func getLocationFromStack(stack, callers) (function, file, line)
getLocationFromStack(stack) ==
    IF stack.callers < 1
    THEN [function |-> "Unknown", file |-> "Unknown", line |-> 0]
    ELSE LET cut == GoSrcEnd(stack.file, 1)
         IN  [function |-> stack.function,
              file |-> IF cut = 0 THEN stack.file
                       ELSE SubSeq(stack.file, cut, Len(stack.file)),
              line |-> stack.line]

\* json.Marshal(jsonError{...}): the fields in jsonError's tags, omitempty.
MarshalJsonError(message, location, details, hasCause, cause) ==
    LET f1 == OmitEmpty(EmptyMap, "message", JString(message), message = "")
        f2 == OmitEmpty(f1, "function", JString(location.function),
                        location.function = "")
        f3 == OmitEmpty(f2, "linenumber", JNumber(location.line),
                        location.line = 0)
        f4 == OmitEmpty(f3, "file", JString(location.file), location.file = "")
        f5 == OmitEmpty(f4, "details", MarshalDetails(details),
                        DOMAIN details.kv = {})
    IN  JObject(OmitEmpty(f5, "cause", cause, ~hasCause))

NoLocation == [function |-> "", file |-> "", line |-> 0]

RECURSIVE MarshalErrkitErrorToJSON(_, _, _)
RECURSIVE MarshalError(_, _, _)
RECURSIVE ErrorList_MarshalJSON(_, _, _)

MarshalErrkitErrorToJSON_errorText(h, ar, err) ==
    LET o == h[err.p]
    IN  MarshalJsonError(Error(h, ar, err), getLocationFromStack(o.stack),
                         Details(h, err), o.cause # Nil,
                         IF o.cause = Nil THEN JNull
                         ELSE MarshalError(h, ar, o.cause))

\* func MarshalErrkitErrorToJSON(err *errkitError) ([]byte, error), err not
\* nil: an errkitError cause is encoded by this function, any other cause
\* by json.Marshal(jsonMarshable(cause)).
MarshalErrkitErrorToJSON(h, ar, err) ==
    LET o == h[err.p]
    IN  MarshalJsonError(Message(h, ar, err), getLocationFromStack(o.stack),
                         Details(h, err), o.cause # Nil,
                         IF o.cause = Nil THEN JNull
                         ELSE IF TypeOf(h, o.cause) = "errkitError"
                              THEN MarshalErrkitErrorToJSON(h, ar, o.cause)
                              ELSE MarshalError(h, ar, o.cause))

MarshalError_leafOnly(h, ar, err) ==
    IF err = Nil THEN JNull
    ELSE MarshalJsonError(Error(h, ar, err), NoLocation, NilDetails,
                          FALSE, JNull)

\* json.Marshal(jsonMarshable(err)): an error that is a json.Marshaler
\* (*errkitError, ErrorList) encodes itself, any other becomes
\* jsonError{Message: err.Error()}.
MarshalError(h, ar, err) ==
    IF err = Nil THEN JNull
    ELSE IF TypeOf(h, err) = "errkitError"
         THEN MarshalErrkitErrorToJSON(h, ar, err)
    ELSE IF TypeOf(h, err) = "ErrorList" THEN ErrorList_MarshalJSON(h, ar, err)
    ELSE MarshalJsonError(Error(h, ar, err), NoLocation, NilDetails,
                          FALSE, JNull)

ErrorList_MarshalJSON_reversed(h, ar, e) ==
    IF e.n = 0 THEN JNull
    ELSE LET message == IF e.n = 1 THEN "1 error has occurred"
                        ELSE Itoa(e.n) \o " errors have occurred"
         IN  JObject(("message" :> JString(message)) @@
                     ("errors" :> JArray([i \in 1 .. e.n |->
                         MarshalError(h, ar, ar[e.p][e.n + 1 - i])])))

\* func (e ErrorList) MarshalJSON() ([]byte, error)
ErrorList_MarshalJSON(h, ar, e) ==
    IF e.n = 0 THEN JNull
    ELSE LET message == IF e.n = 1 THEN "1 error has occurred"
                        ELSE Itoa(e.n) \o " errors have occurred"
         IN  JObject(("message" :> JString(message)) @@
                     ("errors" :> JArray([i \in 1 .. e.n |->
                         MarshalError(h, ar, ar[e.p][i])])))

(***************************************************************************)
(* Decoding: jsonError, the read-only mirror of an encoded error.          *)
(***************************************************************************)
\* The Cause field of a jsonError (type any): nothing, a *jsonError (a nil
\* one when the document says null), or an arbitrary decoded JSON value.
NoCause == [t |-> "nil", v |-> JNull]

ZeroJsonError ==
    [Message |-> "", Function |-> "", LineNumber |-> 0, File |-> "",
     Details |-> NilDetails, Cause |-> NoCause]

RECURSIVE UnmarshalAny(_)
\* json.Unmarshal into an any inside a details map.
UnmarshalAny(doc) ==
    CASE doc.t = "string" -> AnyString(doc.s)
      [] doc.t = "number" -> AnyInt(doc.i)
      [] doc.t = "null" -> AnyNil
      [] doc.t = "object" ->
            AnyErrorDetails([k \in DOMAIN doc.m |-> UnmarshalAny(doc.m[k])])

\* Whether json.Unmarshal accepts the object's field for a Go field of the
\* given JSON type: missing, null or of that type.
FieldFits(fields, name, type) ==
    name \notin DOMAIN fields \/ fields[name].t \in {type, "null"}

StringField(fields, name) ==
    IF name \in DOMAIN fields /\ fields[name].t = "string"
    THEN fields[name].s ELSE ""

NumberField(fields, name) ==
    IF name \in DOMAIN fields /\ fields[name].t = "number"
    THEN fields[name].i ELSE 0

\* err := json.Unmarshal(source, &parsedError), the fields other than Cause;
\* detailsTag is the JSON name of the Details field.
parsedError(source, detailsTag) ==
    LET fields == source.m
    IN  IF source.t = "null" THEN [ok |-> TRUE, v |-> ZeroJsonError]
        ELSE IF \/ source.t # "object"
                \/ ~FieldFits(fields, "message", "string")
                \/ ~FieldFits(fields, "function", "string")
                \/ ~FieldFits(fields, "linenumber", "number")
                \/ ~FieldFits(fields, "file", "string")
                \/ ~FieldFits(fields, detailsTag, "object")
        THEN [ok |-> FALSE, v |-> ZeroJsonError]
        ELSE [ok |-> TRUE,
              v |-> [Message |-> StringField(fields, "message"),
                     Function |-> StringField(fields, "function"),
                     LineNumber |-> NumberField(fields, "linenumber"),
                     File |-> StringField(fields, "file"),
                     Details |->
                        IF detailsTag \in DOMAIN fields
                           /\ fields[detailsTag].t = "object"
                        THEN MakeDetails([k \in DOMAIN fields[detailsTag].m |->
                                 UnmarshalAny(fields[detailsTag].m[k])])
                        ELSE NilDetails,
                     Cause |-> NoCause]]

RECURSIVE jsonError_UnmarshalJSON(_)

\* The Cause a jsonError gets from the "cause" field of source: first as a
\* *jsonError, then, when that fails, as an arbitrary JSON value.
DecodedCause(source) ==
    IF source.t # "object" \/ "cause" \notin DOMAIN source.m THEN NoCause
    ELSE LET raw == source.m["cause"]
         IN  IF raw.t = "null" THEN [t |-> "nilJsonError", v |-> JNull]
             ELSE LET inner == jsonError_UnmarshalJSON(raw)
                  IN  IF inner.ok THEN [t |-> "jsonError", v |-> inner.v]
                      ELSE [t |-> "any", v |-> raw]

jsonError_UnmarshalJSON_fieldsTag(source) ==
    LET parsed == parsedError(source, "fields")
    IN  IF ~parsed.ok THEN parsed
        ELSE [ok |-> TRUE,
              v |-> [parsed.v EXCEPT !.Cause = DecodedCause(source)]]

\* func (e *jsonError) UnmarshalJSON(source []byte) error: ok is err == nil,
\* v is *e afterwards (e starts as the zero jsonError).
jsonError_UnmarshalJSON(source) ==
    LET parsed == parsedError(source, "details")
    IN  IF ~parsed.ok THEN parsed
        ELSE [ok |-> TRUE,
              v |-> [parsed.v EXCEPT !.Cause = DecodedCause(source)]]

NoDecoded == [ok |-> FALSE, v |-> ZeroJsonError]

(***************************************************************************)
(* State: heap objects by address, the backing arrays of ErrorLists, the   *)
(* error values the caller holds, and the last call with its result.       *)
(***************************************************************************)
NoCall ==
    [op |-> "none", err |-> Nil, cause |-> Nil, message |-> "",
     details |-> <<>>, ret |-> Nil, map |-> NilDetails,
     json |-> JNull, decoded |-> NoDecoded]

Call(op, err, cause, message, details, ret) ==
    [NoCall EXCEPT !.op = op, !.err = err, !.cause = cause,
                   !.message = message, !.details = details, !.ret = ret]

\* The detail argument lists the constructors are called with.
ConstructorArgLists ==
    { <<>>, <<AnyString("k1")>> }

Held == vals \cup {Nil}

\* The goroutines of a program: where each one is, who holds the mutex, the
\* wait group's counter, the channel, and what the collector has folded.
\* A program with a single goroutine has none of it.
NoProcs ==
    [worker |-> << >>, closer |-> "unborn", main |-> "none",
     lock |-> 0, wg |-> 0, closed |-> FALSE, closes |-> 0,
     offer |-> Nil, sender |-> 0, err |-> Nil, sent |-> 0, got |-> 0,
     orderedFailures |-> << >>, result |-> Nil, panicked |-> FALSE]

\* One more call, while the model's bound on calls allows it; a call moves
\* no goroutine.
Step == calls < MaxCalls /\ calls' = calls + 1 /\ UNCHANGED procs

Init ==
    /\ heap = <<>>
    /\ arrays = <<>>
    /\ vals = {}
    /\ last = NoCall
    /\ calls = 0
    /\ procs = NoProcs

\* NewSentinelErr = errors.New
NewSentinelErr(message) ==
    /\ Step
    /\ heap' = Append(heap, errorString(message))
    /\ vals' = vals \cup {Ptr(Len(heap) + 1)}
    /\ last' = Call("NewSentinelErr", Nil, Nil, message, <<>>, Ptr(Len(heap) + 1))
    /\ UNCHANGED arrays

newTestError(msg) ==
    /\ Step
    /\ heap' = Append(heap, testErrorType(msg))
    /\ vals' = vals \cup {Ptr(Len(heap) + 1)}
    /\ last' = Call("newTestError", Nil, Nil, msg, <<>>, Ptr(Len(heap) + 1))
    /\ UNCHANGED arrays

New_fixedMessage(message, details) ==
    /\ Step
    /\ heap' = heap \o <<errorString("error"),
                         newError(Ptr(Len(heap) + 1), Caller, details)>>
    /\ vals' = vals \cup {Ptr(Len(heap) + 2)}
    /\ last' = Call("New", Nil, Nil, message, details, Ptr(Len(heap) + 2))
    /\ UNCHANGED arrays

\* return newError(errors.New(message), 2, details...)
New(message, details) ==
    /\ Step
    /\ heap' = heap \o <<errorString(message),
                         newError(Ptr(Len(heap) + 1), Caller, details)>>
    /\ vals' = vals \cup {Ptr(Len(heap) + 2)}
    /\ last' = Call("New", Nil, Nil, message, details, Ptr(Len(heap) + 2))
    /\ UNCHANGED arrays

Wrap_copiesCause(err, message, details) ==
    /\ Step
    /\ err # Nil
    /\ heap' = heap \o <<errorString(message),
                         errorString(Error(heap, arrays, err)),
                         [newError(Ptr(Len(heap) + 1), Caller, details)
                             EXCEPT !.cause = Ptr(Len(heap) + 2)]>>
    /\ vals' = vals \cup {Ptr(Len(heap) + 3)}
    /\ last' = Call("Wrap", err, Nil, message, details, Ptr(Len(heap) + 3))
    /\ UNCHANGED arrays

\* e := newError(errors.New(message), 2, details...); e.cause = err; return e
Wrap(err, message, details) ==
    /\ Step
    /\ heap' = heap \o <<errorString(message),
                         [newError(Ptr(Len(heap) + 1), Caller, details)
                             EXCEPT !.cause = err]>>
    /\ vals' = vals \cup {Ptr(Len(heap) + 2)}
    /\ last' = Call("Wrap", err, Nil, message, details, Ptr(Len(heap) + 2))
    /\ UNCHANGED arrays

WithStack_noNilCheck(err, details) ==
    /\ Step
    /\ heap' = Append(heap, newError(err, Caller, details))
    /\ vals' = vals \cup {Ptr(Len(heap) + 1)}
    /\ last' = Call("WithStack", err, Nil, "", details, Ptr(Len(heap) + 1))
    /\ UNCHANGED arrays

WithStack_storesCause(err, details) ==
    /\ Step
    /\ IF err = Nil
       THEN /\ last' = Call("WithStack", err, Nil, "", details, Nil)
            /\ UNCHANGED <<heap, arrays, vals, procs>>
       ELSE /\ heap' = Append(heap, [newError(err, Caller, details) EXCEPT !.cause = err])
            /\ vals' = vals \cup {Ptr(Len(heap) + 1)}
            /\ last' = Call("WithStack", err, Nil, "", details, Ptr(Len(heap) + 1))
            /\ UNCHANGED arrays

\* if err == nil { return nil }; return newError(err, 2, details...)
WithStack(err, details) ==
    /\ Step
    /\ IF err = Nil
       THEN /\ last' = Call("WithStack", err, Nil, "", details, Nil)
            /\ UNCHANGED <<heap, arrays, vals, procs>>
       ELSE /\ heap' = Append(heap, newError(err, Caller, details))
            /\ vals' = vals \cup {Ptr(Len(heap) + 1)}
            /\ last' = Call("WithStack", err, Nil, "", details, Ptr(Len(heap) + 1))
            /\ UNCHANGED arrays

WithCause_rebuildsBase(err, cause, details) ==
    /\ Step
    /\ IF err = Nil
       THEN /\ last' = Call("WithCause", err, cause, "", details, Nil)
            /\ UNCHANGED <<heap, arrays, vals, procs>>
       ELSE /\ heap' = heap \o <<errorString(Error(heap, arrays, err)),
                                 [newError(Ptr(Len(heap) + 1), Caller, details)
                                     EXCEPT !.cause = cause]>>
            /\ vals' = vals \cup {Ptr(Len(heap) + 2)}
            /\ last' = Call("WithCause", err, cause, "", details, Ptr(Len(heap) + 2))
            /\ UNCHANGED arrays

\* if err == nil { return nil }; e := newError(err, 2, details...);
\* e.cause = cause; return e
WithCause(err, cause, details) ==
    /\ Step
    /\ IF err = Nil
       THEN /\ last' = Call("WithCause", err, cause, "", details, Nil)
            /\ UNCHANGED <<heap, arrays, vals, procs>>
       ELSE /\ heap' = Append(heap, [newError(err, Caller, details) EXCEPT !.cause = cause])
            /\ vals' = vals \cup {Ptr(Len(heap) + 1)}
            /\ last' = Call("WithCause", err, cause, "", details, Ptr(Len(heap) + 1))
            /\ UNCHANGED arrays

(***************************************************************************)
(* ErrorList and Append.                                                   *)
(***************************************************************************)
\* The capacity Go's append grows a small slice to.
GrownCap(cap, needed) == IF needed > 2 * cap THEN needed ELSE 2 * cap

Padded(members, cap) == members \o [i \in 1 .. (cap - Len(members)) |-> Nil]

\* Go's append(s, xs...): in place when the capacity allows, else into a
\* new backing array.  Yields the arrays and the slice header returned.
GoAppend(ar, s, xs) ==
    IF s.n + Len(xs) <= s.c
    THEN [arrays |-> [ar EXCEPT ![s.p] =
                         [i \in 1 .. s.c |->
                             IF i > s.n /\ i <= s.n + Len(xs)
                             THEN xs[i - s.n] ELSE ar[s.p][i]]],
          ret |-> ErrorList(s.p, s.n + Len(xs), s.c)]
    ELSE LET cap == GrownCap(s.c, s.n + Len(xs))
         IN  [arrays |-> Append(ar, Padded(Members(ar, s) \o xs, cap)),
              ret |-> ErrorList(Len(ar) + 1, s.n + Len(xs), cap)]

AppendResult_wrapsSingle(ar, err1, err2) ==
    IF err1 = Nil /\ err2 = Nil THEN [arrays |-> ar, ret |-> Nil]
    ELSE IF err1 = Nil \/ err2 = Nil
         THEN [arrays |-> Append(ar, <<IF err1 = Nil THEN err2 ELSE err1>>),
               ret |-> ErrorList(Len(ar) + 1, 1, 1)]
    ELSE IF err1.k = "list" /\ err2.k = "list"
         THEN GoAppend(ar, err1, Members(ar, err2))
    ELSE IF err1.k = "list" THEN GoAppend(ar, err1, <<err2>>)
    ELSE IF err2.k = "list" THEN GoAppend(ar, err2, <<err1>>)
    ELSE [arrays |-> Append(ar, <<err1, err2>>),
          ret |-> ErrorList(Len(ar) + 1, 2, 2)]

AppendResult_swapsPair(ar, err1, err2) ==
    IF err1 = Nil THEN [arrays |-> ar, ret |-> err2]
    ELSE IF err2 = Nil THEN [arrays |-> ar, ret |-> err1]
    ELSE IF err1.k = "list" /\ err2.k = "list"
         THEN GoAppend(ar, err1, Members(ar, err2))
    ELSE IF err1.k = "list" THEN GoAppend(ar, err1, <<err2>>)
    ELSE IF err2.k = "list" THEN GoAppend(ar, err2, <<err1>>)
    ELSE [arrays |-> Append(ar, <<err2, err1>>),
          ret |-> ErrorList(Len(ar) + 1, 2, 2)]

AppendResult_prepends(ar, err1, err2) ==
    IF err1 = Nil THEN [arrays |-> ar, ret |-> err2]
    ELSE IF err2 = Nil THEN [arrays |-> ar, ret |-> err1]
    ELSE IF err1.k = "list" /\ err2.k = "list"
         THEN GoAppend(ar, err1, Members(ar, err2))
    ELSE IF err1.k = "list" THEN GoAppend(ar, err1, <<err2>>)
    ELSE IF err2.k = "list"
         THEN [arrays |-> Append(ar, <<err1>> \o Members(ar, err2)),
               ret |-> ErrorList(Len(ar) + 1, err2.n + 1, err2.n + 1)]
    ELSE [arrays |-> Append(ar, <<err1, err2>>),
          ret |-> ErrorList(Len(ar) + 1, 2, 2)]

\* What Append(err1, err2) yields: the arrays after it and its result.
AppendResult(ar, err1, err2) ==
    IF err1 = Nil THEN [arrays |-> ar, ret |-> err2]
    ELSE IF err2 = Nil THEN [arrays |-> ar, ret |-> err1]
    ELSE IF err1.k = "list" /\ err2.k = "list"
         THEN GoAppend(ar, err1, Members(ar, err2))
    ELSE IF err1.k = "list" THEN GoAppend(ar, err1, <<err2>>)
    ELSE IF err2.k = "list" THEN GoAppend(ar, err2, <<err1>>)
    ELSE [arrays |-> Append(ar, <<err1, err2>>),
          ret |-> ErrorList(Len(ar) + 1, 2, 2)]

\* errkit.Append; named for the package, as Append is the sequence operator.
errkit_Append(err1, err2) ==
    LET r == AppendResult(arrays, err1, err2)
    IN  /\ Step
        /\ arrays' = r.arrays
        /\ vals' = vals \cup ({r.ret} \ {Nil})
        /\ last' = Call("Append", err1, err2, "", <<>>, r.ret)
        /\ UNCHANGED heap

\* The calls a program makes, one after another, on the errors it holds.
Next ==
    \/ \E m \in Messages : NewSentinelErr(m)
    \/ \E m \in Messages : newTestError(m)
    \/ \E m \in Messages, d \in ConstructorArgLists : New(m, d)
    \/ \E e \in Held, m \in Messages, d \in ConstructorArgLists : Wrap(e, m, d)
    \/ \E e \in Held, d \in ConstructorArgLists : WithStack(e, d)
    \/ \E e \in Held, c \in Held, d \in ConstructorArgLists : WithCause(e, c, d)
    \/ \E e1 \in Held, e2 \in Held : errkit_Append(e1, e2)

Spec == Init /\ [][Next]_vars

\* One call of New on arguments drawn before the call.
InitNew ==
    /\ heap = <<>>
    /\ arrays = <<>>
    /\ vals = {}
    /\ calls = 0
    /\ procs = NoProcs
    /\ \E m \in Messages, d \in DetailArgLists :
          last = [NoCall EXCEPT !.op = "input", !.message = m, !.details = d]

NextNew == last.op = "input" /\ New(last.message, last.details)

SpecNew == InitNew /\ [][NextNew]_vars

(***************************************************************************)
(* Properties of the constructors and of the matching protocol.  `last`    *)
(* holds the call just made: its arguments and the value it returned.      *)
(***************************************************************************)
Called(op) == last.op = op

IsErrkitError(v) == v.k = "ptr" /\ heap[v.p].type = "errkitError"

\* C1: Unwrap returns exactly the cause supplied at construction:
\* Unwrap(Wrap(err, msg)) is err itself for every non-nil err, and
\* Unwrap(WithCause(base, c)) is c itself for every non-nil base.
C1_UnwrapYieldsCause ==
    /\ (Called("Wrap") /\ last.err # Nil) => Unwrap(heap, last.ret) = last.err
    /\ (Called("WithCause") /\ last.err # Nil) => Unwrap(heap, last.ret) = last.cause

\* An error was wrapped while another error with the same text is held.
C1_Witness ==
    /\ Called("Wrap")
    /\ last.err # Nil
    /\ Unwrap(heap, last.ret) = last.err
    /\ \E v \in vals :
          v # last.err /\ Error(heap, arrays, v) = Error(heap, arrays, last.err)

\* C2 as stated: for every non-nil error err, an ErrorList included,
\* Is(Wrap(err, msg), err) is true.
C2_AsClaimed ==
    (Called("Wrap") /\ last.err # Nil) => Is(heap, arrays, last.ret, last.err)

\* C2 amended: for every non-nil error err that is not an ErrorList,
\* Is(Wrap(err, msg), err) is true; for an ErrorList it is false.
C2_WrapMatchesCause ==
    (Called("Wrap") /\ last.err # Nil) =>
        (Is(heap, arrays, last.ret, last.err) <=> last.err.k # "list")

\* An error created by New was wrapped and matches.
C2_Witness ==
    /\ Called("Wrap")
    /\ IsErrkitError(last.err)
    /\ Is(heap, arrays, last.ret, last.err)

C4_NilBaseYieldsNil ==
    [][ ((last'.op = "WithStack" \/ last'.op = "WithCause") /\ last'.err = Nil) =>
            (last'.ret = Nil /\ heap' = heap /\ arrays' = arrays /\ vals' = vals)
      ]_vars

\* WithCause was called with a nil base, a cause and details.
C4_Witness ==
    /\ Called("WithCause")
    /\ last.err = Nil
    /\ last.cause # Nil
    /\ last.details # <<>>
    /\ last.ret = Nil

\* C5 as stated: Wrap(nil, msg, details...) is nil.
C5_AsClaimed == (Called("Wrap") /\ last.err = Nil) => last.ret = Nil

C7_WithStackKeepsMatch ==
    (Called("WithStack") /\ last.err.k = "ptr") =>
        Is(heap, arrays, last.ret, last.err)

\* An error that has a cause was passed to WithStack and still matches.
C7_Witness ==
    /\ Called("WithStack")
    /\ IsErrkitError(last.err)
    /\ heap[last.err.p].cause # Nil
    /\ Is(heap, arrays, last.ret, last.err)

\* C8: for every message m and detail list d, e = New(m, d...) has
\* Message() = m, Details() = ToErrorDetails(d) and no cause.
C8_NewKeepsMessageAndDetails ==
    Called("New") =>
        /\ Message(heap, arrays, last.ret) = last.message
        /\ Details(heap, last.ret) = ToErrorDetails(last.details)
        /\ Unwrap(heap, last.ret) = Nil

\* New("disk full", "k1", 123, "k2") was called.
C8_Witness ==
    /\ Called("New")
    /\ last.message = "disk full"
    /\ last.details = <<AnyString("k1"), AnyInt(123), AnyString("k2")>>
    /\ Message(heap, arrays, last.ret) = "disk full"
    /\ Details(heap, last.ret) =
          MakeDetails(MapPut(MapPut(EmptyMap, "k1", AnyInt(123)),
                             "k2", AnyString("NOVAL")))
    /\ Unwrap(heap, last.ret) = Nil

\* The arguments of one call of ToErrorDetails, drawn before the call.
InitDetails ==
    /\ heap = <<>>
    /\ arrays = <<>>
    /\ vals = {}
    /\ calls = 0
    /\ procs = NoProcs
    /\ \E d \in DetailArgLists :
          last = [NoCall EXCEPT !.op = "input", !.details = d]

\* A call of ToErrorDetails on its own.
CallToErrorDetails ==
    /\ last.op = "input"
    /\ last' = [last EXCEPT !.op = "ToErrorDetails",
                            !.map = ToErrorDetails(last.details)]
    /\ calls' = calls + 1
    /\ UNCHANGED <<heap, arrays, vals, procs>>

NextDetails == CallToErrorDetails

SpecDetails == InitDetails /\ [][NextDetails]_vars

(***************************************************************************)
(* Properties of ToErrorDetails.                                           *)
(***************************************************************************)
\* The pairs of a detail list that have both elements: pair j is
\* (d[2j-1], d[2j]).
FullPairs(d) == 1 .. (Len(d) \div 2)

OddArgs(d) == Len(d) % 2 = 1 /\ ~(Len(d) = 1 /\ d[1].t = "map")

\* The text the spec gives for a pair's key.
SpecKey(x) == IF x.t = "string" THEN x.s ELSE "BADKEY:(" \o Sprint(x) \o ")"

\* Whether a later pair of d, or its odd last element, has the key of pair j.
KeyRepeatedAfter(d, j) ==
    \/ \E j2 \in FullPairs(d) : j2 > j /\ SpecKey(d[2 * j2 - 1]) = SpecKey(d[2 * j - 1])
    \/ Len(d) % 2 = 1 /\ SpecKey(d[Len(d)]) = SpecKey(d[2 * j - 1])

Returned(k, v) ==
    /\ ~last.map.isNil
    /\ k \in DOMAIN last.map.kv
    /\ last.map.kv[k] = v

\* C9 as stated: for every odd-length detail list (other than a single
\* ErrorDetails map) the last element is a key mapped to "NOVAL" and every
\* earlier pair is mapped as given.
C9_AsClaimed ==
    (last.op = "ToErrorDetails" /\ OddArgs(last.details)) =>
        LET d == last.details
        IN  /\ Returned(SpecKey(d[Len(d)]), AnyString("NOVAL"))
            /\ \A j \in FullPairs(d) : Returned(SpecKey(d[2 * j - 1]), d[2 * j])

\* C9 amended: for every odd-length detail list (other than a single
\* ErrorDetails map) the last element is a key mapped to "NOVAL", and every
\* earlier pair whose key is not repeated by a later pair or by the last
\* element is mapped as given; the map holds no other key.
C9_OddLengthNoVal ==
    (last.op = "ToErrorDetails" /\ OddArgs(last.details)) =>
        LET d == last.details
        IN  /\ Returned(SpecKey(d[Len(d)]), AnyString("NOVAL"))
            /\ \A j \in FullPairs(d) :
                  ~KeyRepeatedAfter(d, j) => Returned(SpecKey(d[2 * j - 1]), d[2 * j])
            /\ DOMAIN last.map.kv =
                  {SpecKey(d[2 * j - 1]) : j \in FullPairs(d)} \cup {SpecKey(d[Len(d)])}

\* [k1, v1, k2] has been normalised to {k1: v1, k2: "NOVAL"}.
C9_Witness ==
    /\ last.op = "ToErrorDetails"
    /\ last.details = <<AnyString("k1"), AnyInt(456), AnyString("k2")>>
    /\ last.map = MakeDetails(MapPut(MapPut(EmptyMap, "k1", AnyInt(456)),
                                     "k2", AnyString("NOVAL")))

\* C10 as stated: every pair whose first element is not a string is filed
\* under "BADKEY:(<text>)" with its second element as the value, and the
\* pairs with string keys are mapped as if it were not there.
C10_AsClaimed ==
    last.op = "ToErrorDetails" =>
        LET d == last.details
        IN  (Len(d) >= 2 /\ \E j \in FullPairs(d) : d[2 * j - 1].t # "string") =>
                \A j \in FullPairs(d) :
                    IF d[2 * j - 1].t # "string"
                    THEN Returned("BADKEY:(" \o Sprint(d[2 * j - 1]) \o ")", d[2 * j])
                    ELSE \/ Returned(d[2 * j - 1].s, d[2 * j])
                         \/ \E j2 \in FullPairs(d) :
                               j2 > j /\ d[2 * j2 - 1] = d[2 * j - 1]
                         \/ Len(d) % 2 = 1 /\ d[Len(d)] = d[2 * j - 1]

\* C10 amended: a pair whose first element is not a string is filed under
\* "BADKEY:(<text>)" with its second element as the value unless a later
\* pair, or the odd last element, yields the same key text; a pair with a
\* string key keeps its value unless a later key, given or synthesised, has
\* the same text.
C10_BadKey ==
    last.op = "ToErrorDetails" =>
        LET d == last.details
        IN  (Len(d) >= 2 /\ \E j \in FullPairs(d) : d[2 * j - 1].t # "string") =>
                \A j \in FullPairs(d) :
                    ~KeyRepeatedAfter(d, j) =>
                        IF d[2 * j - 1].t # "string"
                        THEN Returned("BADKEY:(" \o Sprint(d[2 * j - 1]) \o ")", d[2 * j])
                        ELSE Returned(d[2 * j - 1].s, d[2 * j])

\* [123, 456] has been normalised to {"BADKEY:(123)": 456}.
C10_Witness ==
    /\ last.op = "ToErrorDetails"
    /\ last.details = <<AnyInt(123), AnyInt(456)>>
    /\ last.map = MakeDetails(MapPut(EmptyMap, "BADKEY:(123)", AnyInt(456)))

(***************************************************************************)
(* Aggregation.  A program that holds a few errors of the kinds the tests  *)
(* use (a standard error, two errors of a custom type, a WithCause result  *)
(* over them) and combines what it holds with Append.                      *)
(***************************************************************************)
MaxAppends == 2

\* predefinedStdError, two newTestError values, WithCause(std, test).
ListPool ==
    << errorString("not found"),
       testErrorType("disk full"),
       testErrorType("say \"hi\""),
       [newError(Ptr(1), CallerFrame(0), <<>>) EXCEPT !.cause = Ptr(2)] >>

InitList ==
    /\ heap = ListPool
    /\ arrays = <<>>
    /\ vals = {Ptr(a) : a \in 1 .. Len(ListPool)}
    /\ last = NoCall
    /\ calls = 0
    /\ procs = NoProcs

NextList ==
    \E e1 \in Held, e2 \in Held : calls < MaxAppends /\ errkit_Append(e1, e2)

SpecList == InitList /\ [][NextList]_vars

IsList(v) == v.k = "list"
IsPlain(v) == v.k = "ptr"

C12_AsClaimed ==
    (/\ Called("Append")
     /\ \/ last.err = Nil /\ IsPlain(last.cause)
        \/ last.cause = Nil /\ IsPlain(last.err))
    => LET e == IF last.err = Nil THEN last.cause ELSE last.err
       IN  Error(heap, arrays, last.ret)
              = "[" \o Quote(Error(heap, arrays, e)) \o "]"

\* Folding Append from the left over a slice of errors the caller holds:
\* result = Append(e1, e2); result = Append(result, e3); ...
\* The caller's slice is arrays[1]; `calls` is the number of Append calls
\* made so far.
FoldInputs ==
    UNION { [1 .. n -> {Ptr(a) : a \in 1 .. Len(ListPool)}]
              : n \in 2 .. (MaxCalls + 1) }

InitFold ==
    /\ heap = ListPool
    /\ \E es \in FoldInputs : arrays = <<es>>
    /\ vals = {}
    /\ last = NoCall
    /\ calls = 0
    /\ procs = NoProcs

NextFold ==
    /\ calls + 2 <= Len(arrays[1])
    /\ errkit_Append(IF calls = 0 THEN arrays[1][1] ELSE last.ret,
                     arrays[1][calls + 2])

SpecFold == InitFold /\ [][NextFold]_vars

\* C13: after the k-th Append of a left fold over e1..en (plain, non-nil),
\* the result is an ErrorList whose members are exactly e1..e(k+1) in that
\* order; after the last call they are e1..en.
C13_FoldKeepsOrder ==
    calls >= 1 =>
        /\ IsList(last.ret)
        /\ Members(arrays, last.ret) = SubSeq(arrays[1], 1, calls + 1)

C13_Witness ==
    /\ Len(arrays[1]) = 4
    /\ calls = 3
    /\ arrays[1][1] # arrays[1][2]
    /\ arrays[1][2] # arrays[1][3]
    /\ Members(arrays, last.ret) = arrays[1]

\* C14 as claimed: Append(p, L) with p plain and L a list yields p followed
\* by the members of L.
C14_AsClaimed ==
    (Called("Append") /\ IsPlain(last.err) /\ IsList(last.cause))
    => Members(arrays, last.ret) = <<last.err>> \o Members(arrays, last.cause)

\* C14: Append(p, L) with p plain and L a list yields the members of L in
\* their order followed by p.
C14_PlainGoesLast ==
    (Called("Append") /\ IsPlain(last.err) /\ IsList(last.cause))
    => Members(arrays, last.ret) = Members(arrays, last.cause) \o <<last.err>>

C14_Witness ==
    /\ Called("Append")
    /\ IsPlain(last.err)
    /\ IsList(last.cause)
    /\ last.err # Members(arrays, last.cause)[1]
    /\ last.ret.n = 3

Lists == {v \in vals : IsList(v)}

\* The members of L that errors.As accepts for the target type, by index.
MatchingMembers(L, targetType) ==
    {i \in 1 .. L.n : As(heap, arrays, arrays[L.p][i], targetType) # Nil}

Min(S) == CHOOSE x \in S : \A y \in S : x <= y

\* Is(L, t) holds iff Is(m, t) holds for some member m of L.
ListIsScansMembers(L, t) ==
    Is(heap, arrays, L, t)
        <=> \E i \in 1 .. L.n : Is(heap, arrays, arrays[L.p][i], t)

\* As(L, &out) succeeds iff As succeeds on some member, and stores what it
\* stores for the first such member.
ListAsBindsFirstMember(L, targetType) ==
    LET hits == MatchingMembers(L, targetType)
    IN  IF hits = {} THEN As(heap, arrays, L, targetType) = Nil
        ELSE As(heap, arrays, L, targetType)
                = As(heap, arrays, arrays[L.p][Min(hits)], targetType)

\* C16 as claimed: for every list L, every target t and every type of out.
C16_AsClaimed ==
    \A L \in Lists :
        /\ \A t \in Held : ListIsScansMembers(L, t)
        /\ \A T \in TargetTypes : ListAsBindsFirstMember(L, T)

\* C16: Is(L, t) holds iff Is(m, t) holds for some member m; for out of a
\* type that L itself is not assignable to, As(L, &out) succeeds iff As
\* succeeds on some member and binds out from the first such member; for
\* out of type ErrorList or error, As binds L itself.
C16_ListMatchesThroughMembers ==
    \A L \in Lists :
        /\ \A t \in Held : ListIsScansMembers(L, t)
        /\ \A T \in TargetTypes :
              IF AssignableTo(heap, L, T)
              THEN As(heap, arrays, L, T) = L
              ELSE ListAsBindsFirstMember(L, T)

\* A list whose first member does not match, with two later members of the
\* custom type: As binds the earlier of the two, and Is finds a member's
\* cause.
C16_Witness ==
    \E L \in Lists :
        /\ L.n = 3
        /\ MatchingMembers(L, "testErrorType") = {2, 3}
        /\ arrays[L.p][2] # arrays[L.p][3]
        /\ As(heap, arrays, L, "testErrorType") = arrays[L.p][2]
        /\ \E t \in vals : IsPlain(t) /\ Is(heap, arrays, L, t)
                           /\ \A i \in 1 .. L.n : arrays[L.p][i] # t

(***************************************************************************)
(* The text of a list.  A list of standard errors with the texts drawn     *)
(* below, as a left fold of Append builds it, and one call of its Error(). *)
(***************************************************************************)
MaxMembers == 3

MemberTexts ==
    {"not found", "say \"hi\"", "a\\b", "a<b", "x&y", "two\nlines"}

InitText ==
    \E n \in 2 .. MaxMembers : \E texts \in [1 .. n -> MemberTexts] :
        /\ heap = [i \in 1 .. n |-> errorString(texts[i])]
        /\ arrays = << [i \in 1 .. n |-> Ptr(i)] >>
        /\ vals = {ErrorList(1, n, n)}
        /\ last = [NoCall EXCEPT !.op = "input", !.err = ErrorList(1, n, n)]
        /\ calls = 0
        /\ procs = NoProcs

\* str := err.Error()
CallError ==
    /\ last.op = "input"
    /\ last' = [last EXCEPT !.op = "Error",
                            !.message = Error(heap, arrays, last.err)]
    /\ calls' = calls + 1
    /\ UNCHANGED <<heap, arrays, vals, procs>>

NextText == CallError

SpecText == InitText /\ [][NextText]_vars

\* The Error() texts of the members of a list, in member order.
MemberErrors(L) == [i \in 1 .. L.n |-> Error(heap, arrays, arrays[L.p][i])]

\* C17 as claimed: Error() of a list is the text json.Marshal produces for
\* the array of its members' Error() strings, whatever the member texts.
C17_AsClaimed ==
    Called("Error") => last.message = JSONStringArray(MemberErrors(last.err))

(***************************************************************************)
(* The JSON form of a list.  A list over errors of every kind (standard    *)
(* errors, one of them with an empty text, a custom error, errkitErrors    *)
(* with and without cause and details) and one json.Marshal of it.         *)
(***************************************************************************)
MemberPool ==
    << errorString("not found"),
       testErrorType("disk full"),
       errorString(""),
       [newError(Ptr(1), CallerFrame(1), <<AnyString("k1")>>)
           EXCEPT !.cause = Ptr(2)],
       newError(Ptr(1), CallerFrame(2), <<>>) >>

InitListJSON ==
    \E n \in 2 .. MaxMembers :
      \E members \in [1 .. n -> {Ptr(a) : a \in 1 .. Len(MemberPool)}] :
        /\ heap = MemberPool
        /\ arrays = <<members>>
        /\ vals = {ErrorList(1, n, n)}
        /\ last = [NoCall EXCEPT !.op = "input", !.err = ErrorList(1, n, n)]
        /\ calls = 0
        /\ procs = NoProcs

\* raw, _ := json.Marshal(err), once, on a non-nil error.
CallMarshal(err) ==
    /\ last.op \notin {"Marshal", "Unmarshal"}
    /\ err # Nil
    /\ last' = [last EXCEPT !.op = "Marshal", !.err = err,
                            !.json = MarshalError(heap, arrays, err)]
    /\ calls' = calls + 1
    /\ UNCHANGED <<heap, arrays, vals, procs>>

NextListJSON == CallMarshal(last.err)

SpecListJSON == InitListJSON /\ [][NextListJSON]_vars

\* The head of a list's JSON form: an object with "message" equal to
\* "<N> errors have occurred" and an "errors" array of N entries.
ListHead(doc, n) ==
    /\ doc.t = "object"
    /\ DOMAIN doc.m = {"message", "errors"}
    /\ doc.m["message"] = JString(Itoa(n) \o " errors have occurred")
    /\ doc.m["errors"].t = "array"
    /\ Len(doc.m["errors"].a) = n

\* Of the members drawn here, the json.Marshalers are the *errkitErrors.
CanEncodeItself(m) == TypeOf(heap, m) = "errkitError"

\* C18 as claimed: entry i is the member's own encoding when it can encode
\* itself and {"message": text} otherwise.
C18_AsClaimed ==
    (Called("Marshal") /\ IsList(last.err) /\ last.err.n >= 2) =>
        /\ ListHead(last.json, last.err.n)
        /\ \A i \in 1 .. last.err.n :
              LET m == arrays[last.err.p][i]
              IN  last.json.m["errors"].a[i] =
                     IF CanEncodeItself(m)
                     THEN MarshalErrkitErrorToJSON(heap, arrays, m)
                     ELSE JObject("message" :> JString(Error(heap, arrays, m)))

\* C18: for a list of N >= 2 members MarshalJSON yields an object with
\* "message" "<N> errors have occurred" and an "errors" array of N entries
\* in member order; entry i is the member's own encoding when the member
\* can encode itself, {"message": text} when it cannot and its text is not
\* empty, and the empty object {} when it cannot and its text is empty.
C18_ListEncodesMembersInOrder ==
    (Called("Marshal") /\ IsList(last.err) /\ last.err.n >= 2) =>
        /\ ListHead(last.json, last.err.n)
        /\ \A i \in 1 .. last.err.n :
              LET m == arrays[last.err.p][i]
                  text == Error(heap, arrays, m)
              IN  last.json.m["errors"].a[i] =
                     IF CanEncodeItself(m)
                     THEN MarshalErrkitErrorToJSON(heap, arrays, m)
                     ELSE IF text = "" THEN JObject(EmptyMap)
                     ELSE JObject("message" :> JString(text))

C18_Witness ==
    /\ Called("Marshal")
    /\ IsList(last.err)
    /\ last.err.n = 3
    /\ TypeOf(heap, arrays[1][1]) = "errorString"
    /\ TypeOf(heap, arrays[1][2]) = "errkitError"
    /\ TypeOf(heap, arrays[1][3]) = "testErrorType"
    /\ last.json.m["errors"].a[2].m["cause"]
          = JObject("message" :> JString("disk full"))

(***************************************************************************)
(* Encoding and decoding an error.  A program that holds a sentinel builds *)
(* an error layer by layer, each constructor applied to the result of the  *)
(* one before, encodes the result and decodes the bytes into a jsonError.  *)
(***************************************************************************)
InitJSON ==
    /\ heap = <<errorString("disk full")>>
    /\ arrays = <<>>
    /\ vals = {Ptr(1)}
    /\ last = NoCall
    /\ calls = 0
    /\ procs = NoProcs

Building == last.op \notin {"Marshal", "Unmarshal"}

\* var unmarshalled jsonError; err := unmarshalled.UnmarshalJSON(raw)
CallUnmarshal ==
    /\ last.op = "Marshal"
    /\ last' = [last EXCEPT !.op = "Unmarshal",
                            !.decoded = jsonError_UnmarshalJSON(last.json)]
    /\ calls' = calls + 1
    /\ UNCHANGED <<heap, arrays, vals, procs>>

\* The messages given to New and Wrap here: the empty one too, which
\* omitempty leaves out of the encoding.
JSONMessages == Messages \cup {""}

NextJSON ==
    \/ \E m \in JSONMessages, d \in ConstructorArgLists :
          Building /\ New(m, d)
    \/ \E m \in JSONMessages, d \in ConstructorArgLists :
          Building /\ Wrap(last.ret, m, d)
    \/ \E d \in ConstructorArgLists : Building /\ WithStack(last.ret, d)
    \/ \E d \in ConstructorArgLists :
          \E bc \in {<<Ptr(1), last.ret>>, <<last.ret, Ptr(1)>>,
                     <<last.ret, last.ret>>} :
              Building /\ WithCause(bc[1], bc[2], d)
    \/ CallMarshal(last.ret)
    \/ CallUnmarshal

SpecJSON == InitJSON /\ [][NextJSON]_vars

RECURSIVE OwnMessage(_)
\* The message of an errkitError's own level: the text given to New or
\* Wrap, or the own message of the base given to WithStack or WithCause.
OwnMessage(e) ==
    LET base == heap[e.p].error
    IN  IF IsErrkitError(base) THEN OwnMessage(base)
        ELSE Error(heap, arrays, base)

RECURSIVE CarriesCause(_)
\* Whether the text of v includes the text of a cause.
CarriesCause(v) ==
    /\ IsErrkitError(v)
    /\ heap[v.p].cause # Nil \/ CarriesCause(heap[v.p].error)

\* The "message" of an encoded error; a field that is left out stands for
\* the empty text.
MessageField(doc) ==
    IF "message" \in DOMAIN doc.m THEN doc.m["message"] ELSE JString("")

RECURSIVE OwnMessageAtEveryLevel(_, _)
OwnMessageAtEveryLevel(e, doc) ==
    /\ doc.t = "object"
    /\ MessageField(doc) = JString(OwnMessage(e))
    /\ IsErrkitError(heap[e.p].cause) =>
          /\ "cause" \in DOMAIN doc.m
          /\ OwnMessageAtEveryLevel(heap[e.p].cause, doc.m["cause"])

RECURSIVE MessageAtEveryLevel(_, _)
MessageAtEveryLevel(e, doc) ==
    LET base == heap[e.p].error
    IN  /\ doc.t = "object"
        /\ IF CarriesCause(base)
           THEN /\ MessageField(doc) = JString(Error(heap, arrays, base))
                /\ MessageField(doc) # JString(OwnMessage(e))
           ELSE MessageField(doc) = JString(OwnMessage(e))
        /\ IsErrkitError(heap[e.p].cause) =>
              /\ "cause" \in DOMAIN doc.m
              /\ MessageAtEveryLevel(heap[e.p].cause, doc.m["cause"])

RECURSIVE ChainOfErrkitErrors(_)
ChainOfErrkitErrors(e) ==
    /\ IsErrkitError(e)
    /\ heap[e.p].cause = Nil \/ ChainOfErrkitErrors(heap[e.p].cause)

RECURSIVE Mirrors(_, _)
\* The jsonError j holds, at every depth, the message, function, file,
\* line number and detail keys of e, its cause being a jsonError again.
Mirrors(j, e) ==
    LET location == getLocationFromStack(heap[e.p].stack)
    IN  /\ j.Message = Message(heap, arrays, e)
        /\ j.Function = location.function
        /\ j.File = location.file
        /\ j.LineNumber = location.line
        /\ DOMAIN j.Details.kv = DOMAIN Details(heap, e).kv
        /\ IF heap[e.p].cause = Nil THEN j.Cause.t = "nil"
           ELSE /\ j.Cause.t = "jsonError"
                /\ Mirrors(j.Cause.v, heap[e.p].cause)

\* C20: an errkit error whose cause chain consists of errkit errors, once
\* encoded and decoded, is recovered at every depth: decoding succeeds and
\* message, function, file, line number and detail keys are the same, the
\* cause being decoded as a nested jsonError.
C20_RoundTrip ==
    (Called("Unmarshal") /\ ChainOfErrkitErrors(last.err))
    => /\ last.decoded.ok
       /\ Mirrors(last.decoded.v, last.err)

C20_Witness ==
    /\ Called("Unmarshal")
    /\ ChainOfErrkitErrors(last.err)
    /\ last.decoded.ok
    /\ last.decoded.v.Cause.t = "jsonError"
    /\ last.decoded.v.Cause.v.Cause.t = "jsonError"
    /\ DOMAIN last.decoded.v.Details.kv = {"k1"}
    /\ DOMAIN last.decoded.v.Cause.v.Details.kv = {}
    /\ last.decoded.v.Message # ""
    /\ last.decoded.v.Cause.v.Message = ""
    /\ last.decoded.v.LineNumber # last.decoded.v.Cause.v.LineNumber
    /\ last.decoded.v.File = "app/main.go"

(***************************************************************************)
(* The plain-text form of an errkit error.                                 *)
(***************************************************************************)
RECURSIVE JoinedMessages(_)
\* The messages along the Unwrap chain of e, outermost first, joined by
\* ": ".
JoinedMessages(e) ==
    LET cause == Unwrap(heap, e)
    IN  IF cause = Nil THEN Message(heap, arrays, e)
        ELSE Message(heap, arrays, e) \o ": " \o JoinedMessages(cause)

MapAt(a) == [isNil |-> FALSE, at |-> a]

\* A Go map on the heap.
mapObject(kv) ==
    [type |-> "ErrorDetails", msg |-> "", error |-> Nil, cause |-> Nil,
     details |-> MakeDetails(kv), stack |-> NoFrame]

\* The entries of an ErrorDetails value (none for the nil map).
Entries(h, d) == IF d.isNil THEN EmptyMap ELSE h[d.at].details.kv

\* &Error{error: ..., function: ..., lineNumber: ..., file: ..., cause: ...}
\* allocated at address at; baseTag points at an int of its own.
legacyError(error, frame, cause, at) ==
    [type |-> "Error", msg |-> "", error |-> error, cause |-> cause,
     details |-> NilDetails, stack |-> NoFrame,
     function |-> frame.function,
     file |-> frame.file \o ":" \o Itoa(frame.line),
     lineNumber |-> frame.line, baseTag |-> at, clonedFrom |-> Nil]

IsLegacyError(h, v) == v.k = "ptr" /\ h[v.p].type = "Error"

\* func newError(message string, stackDepth int) *Error, then e.cause = cause
\* (nil for New): the heap afterwards; the new *Error is its last object.
kerrors_newError(h, message, frame, cause) ==
    h \o << errorString(message),
            legacyError(Ptr(Len(h) + 1), frame, cause, Len(h) + 2) >>

\* func New(message string) *Error
kerrors_New(message) ==
    /\ Step
    /\ heap' = kerrors_newError(heap, message, Caller, Nil)
    /\ vals' = vals \cup {Ptr(Len(heap'))}
    /\ last' = Call("New", Nil, Nil, message, <<>>, Ptr(Len(heap')))
    /\ UNCHANGED arrays

\* func Wrap(err error, message string) *Error
kerrors_Wrap(err, message) ==
    /\ Step
    /\ heap' = kerrors_newError(heap, message, Caller, err)
    /\ vals' = vals \cup {Ptr(Len(heap'))}
    /\ last' = Call("Wrap", Nil, err, message, <<>>, Ptr(Len(heap')))
    /\ UNCHANGED arrays

\* func (e *Error) Message() string
Error_Message(h, e) == h[h[e.p].error.p].msg

\* newDetails: ne.details copied, then details copied over it.
MergedDetails(old, details) ==
    [k \in DOMAIN old \cup DOMAIN details |->
        IF k \in DOMAIN details THEN details[k] ELSE old[k]]

Error_WithDetails_writesShared(e, details) ==
    LET o == heap[e.p]
        merged == MergedDetails(Entries(heap, o.details), details)
    IN  /\ Step
        /\ heap' = IF o.details.isNil
                   THEN heap \o << mapObject(merged),
                                   [o EXCEPT !.clonedFrom = e,
                                             !.details = MapAt(Len(heap) + 1)] >>
                   ELSE [heap EXCEPT ![o.details.at] = mapObject(merged)]
                        \o << [o EXCEPT !.clonedFrom = e] >>
        /\ vals' = vals \cup {Ptr(Len(heap'))}
        /\ last' = [Call("WithDetails", e, Nil, "", <<>>, Ptr(Len(heap')))
                       EXCEPT !.map = MakeDetails(details)]
        /\ UNCHANGED arrays

\* func (e *Error) WithDetails(details ErrorDetails) *Error: a shallow clone
\* of *e whose details are a map made by the call.
Error_WithDetails(e, details) ==
    LET o == heap[e.p]
        newDetails == MergedDetails(Entries(heap, o.details), details)
    IN  /\ Step
        /\ heap' = heap \o << mapObject(newDetails),
                              [o EXCEPT !.clonedFrom = e,
                                        !.details = MapAt(Len(heap) + 1)] >>
        /\ vals' = vals \cup {Ptr(Len(heap'))}
        /\ last' = [Call("WithDetails", e, Nil, "", <<>>, Ptr(Len(heap')))
                       EXCEPT !.map = MakeDetails(details)]
        /\ UNCHANGED arrays

\* func (e *Error) WithDetail(name string, value any) *Error
Error_WithDetail(e, name, value) == Error_WithDetails(e, name :> value)

RECURSIVE Error_MarshalJSON(_, _)
\* func (e *Error) MarshalJSON() ([]byte, error): the cause through
\* JSONMarshable, so an *Error cause encodes itself and any other cause
\* becomes JSONError{Message: err.Error()}.
Error_MarshalJSON(h, e) ==
    LET o == h[e.p]
    IN  MarshalJsonError(Error_Message(h, e),
                         [function |-> o.function, file |-> o.file,
                          line |-> o.lineNumber],
                         MakeDetails(Entries(h, o.details)),
                         o.cause # Nil,
                         IF o.cause = Nil THEN JNull
                         ELSE IF IsLegacyError(h, o.cause)
                              THEN Error_MarshalJSON(h, o.cause)
                              ELSE MarshalJsonError(h[o.cause.p].msg,
                                       NoLocation, NilDetails, FALSE, JNull))

RECURSIVE JSONError_UnmarshalJSON(_)
\* e.Cause of a JSONError: first as a *JSONError, then as an any.
JSONError_Cause(source) ==
    IF source.t # "object" \/ "cause" \notin DOMAIN source.m THEN NoCause
    ELSE LET raw == source.m["cause"]
         IN  IF raw.t = "null" THEN [t |-> "nilJsonError", v |-> JNull]
             ELSE LET inner == JSONError_UnmarshalJSON(raw)
                  IN  IF inner.ok THEN [t |-> "jsonError", v |-> inner.v]
                      ELSE [t |-> "any", v |-> raw]

\* func (e *JSONError) UnmarshalJSON(source []byte) error: the document is
\* parsed into the unexported jsonError, whose Details field is tagged
\* json:"fields,omitempty".
JSONError_UnmarshalJSON(source) ==
    LET parsed == parsedError(source, "fields")
    IN  IF ~parsed.ok THEN parsed
        ELSE [ok |-> TRUE,
              v |-> [parsed.v EXCEPT !.Cause = JSONError_Cause(source)]]

\* The details callers of the earlier revision attach.
LegacyDetails ==
    { "k1" :> AnyString("v1"),
      "k1" :> AnyInt(2),
      "k2" :> AnyString("v2"),
      ("k1" :> AnyString("v3")) @@ ("k3" :> AnyNil) }

InitLegacy ==
    /\ heap = << errorString("disk full") >>
    /\ arrays = <<>>
    /\ vals = {Ptr(1)}
    /\ last = NoCall
    /\ calls = 0
    /\ procs = NoProcs

LegacyErrors == {v \in vals : IsLegacyError(heap, v)}

\* got := err.Error(), the JSON text of MarshalJSON, kept as a document.
CallLegacyMarshal(err) ==
    /\ Building
    /\ IsLegacyError(heap, err)
    /\ last' = [last EXCEPT !.op = "Marshal", !.err = err,
                            !.json = Error_MarshalJSON(heap, err)]
    /\ calls' = calls + 1
    /\ UNCHANGED <<heap, arrays, vals, procs>>

\* unmarshalledError.UnmarshalJSON([]byte(got))
CallLegacyUnmarshal ==
    /\ last.op = "Marshal"
    /\ last' = [last EXCEPT !.op = "Unmarshal",
                            !.decoded = JSONError_UnmarshalJSON(last.json)]
    /\ calls' = calls + 1
    /\ UNCHANGED <<heap, arrays, vals, procs>>

NextLegacy ==
    \/ \E m \in Messages : Building /\ kerrors_New(m)
    \/ \E e \in vals, m \in Messages : Building /\ kerrors_Wrap(e, m)
    \/ \E e \in LegacyErrors, d \in LegacyDetails :
          Building /\ Error_WithDetails(e, d)
    \/ \E e \in LegacyErrors : Building /\ Error_WithDetail(e, "k2", AnyInt(7))
    \/ CallLegacyMarshal(last.ret)
    \/ CallLegacyUnmarshal

SpecLegacy == InitLegacy /\ [][NextLegacy]_vars

\* What a caller can observe of an *Error: message, location, cause and the
\* entries of its details.
Observed(h, e) ==
    [message |-> Error_Message(h, e), function |-> h[e.p].function,
     file |-> h[e.p].file, lineNumber |-> h[e.p].lineNumber,
     cause |-> h[e.p].cause, details |-> Entries(h, h[e.p].details)]

\* C22: e.WithDetails(d) leaves every existing error, e included, with the
\* message, location, cause and details it had; the error it returns is a
\* new one with e's message, location and cause, whose details are e's
\* details overlaid by d, the value of d winning on a key of both.
C22_WithDetailsLeavesReceiver ==
    [][ /\ \A v \in LegacyErrors : Observed(heap', v) = Observed(heap, v)
        /\ last'.op = "WithDetails" =>
              LET e == last'.err
                  r == last'.ret
                  d == last'.map.kv
                  before == Observed(heap, e)
                  after == Observed(heap', r)
              IN  /\ r \notin vals
                  /\ [after EXCEPT !.details = before.details] = before
                  /\ DOMAIN after.details = DOMAIN before.details \cup DOMAIN d
                  /\ \A k \in DOMAIN d : after.details[k] = d[k]
                  /\ \A k \in DOMAIN before.details \ DOMAIN d :
                        after.details[k] = before.details[k] ]_vars

\* A second WithDetail on the result of a first has acted: the receiver had
\* details of its own, and one of its keys was given a new value.
C22_Witness ==
    /\ last.op = "WithDetails"
    /\ Entries(heap, heap[last.err.p].details) = "k1" :> AnyString("v1")
    /\ Entries(heap, heap[last.ret.p].details) =
          ("k1" :> AnyString("v3")) @@ ("k3" :> AnyNil)

\* C26: decoding with JSONError.UnmarshalJSON what Error.MarshalJSON wrote
\* yields Details with the keys of the encoded error's details.
C26_AsClaimed ==
    (last.op = "Unmarshal" /\ Entries(heap, heap[last.err.p].details) # EmptyMap)
        => /\ last.decoded.ok
           /\ DOMAIN last.decoded.v.Details.kv =
                 DOMAIN Entries(heap, heap[last.err.p].details)

(***************************************************************************)
(* ToErrorDetails over the caller's storage: the argument is a slice       *)
(* header over a backing array of the caller, and an ErrorDetails argument *)
(* is a map of the caller, held by reference.                              *)
(***************************************************************************)
MaxBacking == 3

\* A []any: backing array a of `arrays`, len and cap.
AnySlice(a, len, cap) == [k |-> "slice", p |-> a, n |-> len, c |-> cap]

\* An any holding the ErrorDetails map at address a.
AnyMapAt(a) == [t |-> "mapref", s |-> "", i |-> a, m |-> EmptyMap]

\* The elements of a slice, a map among them by its entries.
Elements(h, ar, s) ==
    [i \in 1 .. s.n |->
        IF ar[s.p][i].t = "mapref"
        THEN AnyErrorDetails(h[ar[s.p][i].i].details.kv) ELSE ar[s.p][i]]

\* details = append(details, noVal) on the caller's slice: in place when
\* the capacity allows, else into a new backing array.
AppendNoVal(ar, s) ==
    IF s.n + 1 <= s.c
    THEN [ar EXCEPT ![s.p][s.n + 1] = AnyString(noVal)]
    ELSE LET cap == GrownCap(s.c, s.n + 1)
         IN  Append(ar, [i \in 1 .. cap |->
                            IF i <= s.n THEN ar[s.p][i]
                            ELSE IF i = s.n + 1 THEN AnyString(noVal)
                            ELSE AnyNil])

IsMapArgument(ar, s) == s.n = 1 /\ ar[s.p][1].t = "mapref"

ToErrorDetailsOf_sameMap(s) ==
    /\ last.op = "input"
    /\ IF IsMapArgument(arrays, s)
       THEN /\ last' = [last EXCEPT !.op = "ToErrorDetails",
                                    !.map = MapAt(arrays[s.p][1].i)]
            /\ UNCHANGED <<heap, arrays>>
       ELSE /\ heap' = Append(heap,
                          mapObject(ToErrorDetails(Elements(heap, arrays, s)).kv))
            /\ arrays' = IF s.n % 2 # 0 THEN AppendNoVal(arrays, s) ELSE arrays
            /\ last' = [last EXCEPT !.op = "ToErrorDetails",
                                    !.map = MapAt(Len(heap) + 1)]
    /\ calls' = calls + 1
    /\ UNCHANGED <<vals, procs>>

\* ToErrorDetails(details) on the slice s of the caller: nil for no
\* arguments, else a map made by the call; an odd-length list is first
\* extended by append.
ToErrorDetailsOf(s) ==
    /\ last.op = "input"
    /\ IF s.n = 0
       THEN /\ last' = [last EXCEPT !.op = "ToErrorDetails", !.map = NilDetails]
            /\ UNCHANGED <<heap, arrays>>
       ELSE /\ heap' = Append(heap,
                          mapObject(ToErrorDetails(Elements(heap, arrays, s)).kv))
            /\ arrays' = IF ~IsMapArgument(arrays, s) /\ s.n % 2 # 0
                         THEN AppendNoVal(arrays, s) ELSE arrays
            /\ last' = [last EXCEPT !.op = "ToErrorDetails",
                                    !.map = MapAt(Len(heap) + 1)]
    /\ calls' = calls + 1
    /\ UNCHANGED <<vals, procs>>

\* m[key] = value on the map at address a, by whoever holds it.
MapAssign(a, key, value, op) ==
    /\ last.op \in {"ToErrorDetails", "caller writes", "holder writes"}
    /\ Step
    /\ heap' = [heap EXCEPT ![a] = mapObject(MapPut(heap[a].details.kv, key, value))]
    /\ last' = [last EXCEPT !.op = op]
    /\ UNCHANGED <<arrays, vals>>

\* What callers put into a detail list, and the maps they pass.
SliceValues == { AnyString("k1"), AnyInt(123), AnyNil }

CallerMaps ==
    { "k1" :> AnyString("v1"), ("k1" :> AnyInt(2)) @@ ("k2" :> AnyNil), EmptyMap }

\* The caller holds a map and a backing array, and passes a slice of the
\* array: either detail values, any prefix of them, or the map alone.
InitStorage ==
    /\ \E kv \in CallerMaps : heap = << mapObject(kv) >>
    /\ vals = {}
    /\ calls = 0
    /\ procs = NoProcs
    /\ \E cap \in 0 .. MaxBacking, len \in 0 .. MaxBacking :
          /\ len <= cap
          /\ \E backing \in [1 .. cap -> SliceValues \cup {AnyMapAt(1)}] :
                /\ \A i \in 1 .. cap :
                      backing[i].t = "mapref" => (i = 1 /\ len = 1)
                /\ arrays = << backing >>
                /\ last = [NoCall EXCEPT !.op = "input",
                                         !.err = AnySlice(1, len, cap),
                                         !.details = backing]

NextStorage ==
    \/ ToErrorDetailsOf(last.err)
    \/ \E key \in {"k1", "k3"} :
          MapAssign(1, key, AnyInt(456), "caller writes")
    \/ \E key \in {"k1", "k3"} :
          /\ ~last.map.isNil
          /\ MapAssign(last.map.at, key, AnyInt(456), "holder writes")

SpecStorage == InitStorage /\ [][NextStorage]_vars

\* The argument of the call was the caller's map alone.
MapWasPassed == IsMapArgument(arrays, last.err)

\* C24: given one argument that is an ErrorDetails map, ToErrorDetails
\* returns another map with the same entries and leaves the argument's
\* entries alone; from then on an assignment into the caller's map leaves
\* the returned map as it was, and an assignment into the returned map
\* leaves the caller's map as it was.
C24_MapArgumentIsCopied ==
    [][ MapWasPassed =>
           /\ (last.op = "input" /\ last'.op = "ToErrorDetails") =>
                 /\ ~last'.map.isNil
                 /\ last'.map.at # 1
                 /\ Entries(heap', last'.map) = Entries(heap, MapAt(1))
                 /\ Entries(heap', MapAt(1)) = Entries(heap, MapAt(1))
           /\ last'.op = "caller writes" =>
                 Entries(heap', last'.map) = Entries(heap, last.map)
           /\ last'.op = "holder writes" =>
                 Entries(heap', MapAt(1)) = Entries(heap, MapAt(1)) ]_vars

\* The copy of a two-entry map was made, then the caller and the holder of
\* the copy each assigned into their own map.
C24_Witness ==
    /\ MapWasPassed
    /\ last.op = "holder writes"
    /\ Entries(heap, MapAt(1)) =
          ("k1" :> AnyInt(2)) @@ ("k2" :> AnyNil) @@ ("k3" :> AnyInt(456))
    /\ Entries(heap, last.map) = ("k1" :> AnyInt(456)) @@ ("k2" :> AnyNil)

\* C29: after ToErrorDetails the caller's slice and every element of its
\* backing array are what they were before the call.
C29_AsClaimed ==
    last.op = "ToErrorDetails" => arrays[last.err.p] = last.details

(***************************************************************************)
(* The "cause" field: an errkitError over a cause of every kind.           *)
(***************************************************************************)
MaxWraps == 1

\* The errors of MemberPool and the list Append made of the first two.
InitCause ==
    /\ heap = MemberPool
    /\ arrays = << <<Ptr(1), Ptr(2)>> >>
    /\ vals = {Ptr(a) : a \in 1 .. Len(MemberPool)} \cup {ErrorList(1, 2, 2)}
    /\ last = NoCall
    /\ calls = 0
    /\ procs = NoProcs

CanWrap == Building /\ calls < MaxWraps

NextCause ==
    \/ \E m \in JSONMessages, d \in ConstructorArgLists : CanWrap /\ New(m, d)
    \/ \E c \in Held, m \in JSONMessages, d \in ConstructorArgLists :
          CanWrap /\ Wrap(c, m, d)
    \/ \E c \in Held, d \in ConstructorArgLists :
          CanWrap /\ WithCause(Ptr(1), c, d)
    \/ CallMarshal(last.ret)

SpecCause == InitCause /\ [][NextCause]_vars

\* The cause of the errkitError that was encoded, and the encoding.
EncodedCause == heap[last.err.p].cause

EncodedAnErrkitError == Called("Marshal") /\ IsErrkitError(last.err)

\* C25, as claimed: a cause that cannot encode itself is the leaf object
\* {"message": cause.Error()}.
C25_AsClaimed ==
    (/\ EncodedAnErrkitError
     /\ EncodedCause # Nil
     /\ TypeOf(heap, EncodedCause) \notin {"errkitError", "ErrorList"})
        => last.json.m["cause"] =
              JObject("message" :> JString(Error(heap, arrays, EncodedCause)))

\* C25: the "cause" field of an encoded errkitError is absent without a
\* cause; the nested object of the same shape for an errkitError cause; the
\* cause's own encoding for a cause that encodes itself (an ErrorList); and
\* for any other cause {"message": text}, or the empty object {} when the
\* text is empty.
C25_CauseEncoding ==
    EncodedAnErrkitError =>
        LET cause == EncodedCause
            doc == last.json
        IN  /\ doc.t = "object"
            /\ cause = Nil <=> "cause" \notin DOMAIN doc.m
            /\ cause # Nil =>
                  LET text == Error(heap, arrays, cause)
                      kind == TypeOf(heap, cause)
                  IN  /\ kind = "errkitError" =>
                            /\ doc.m["cause"].t = "object"
                            /\ doc.m["cause"] =
                                  MarshalErrkitErrorToJSON(heap, arrays, cause)
                      /\ kind = "ErrorList" =>
                            doc.m["cause"] =
                               ErrorList_MarshalJSON(heap, arrays, cause)
                      /\ kind \notin {"errkitError", "ErrorList"} =>
                            doc.m["cause"] =
                               IF text = "" THEN JObject(EmptyMap)
                               ELSE JObject("message" :> JString(text))

\* An errkitError over the list was encoded: its "cause" is the list's own
\* document, two entries under "errors".
C25_Witness ==
    /\ EncodedAnErrkitError
    /\ EncodedCause = ErrorList(1, 2, 2)
    /\ Len(last.json.m["cause"].m["errors"].a) = 2

(***************************************************************************)
(* Lists that share a backing array: a program that has folded three       *)
(* errors with Append goes on calling Append and Wrap.                     *)
(***************************************************************************)
\* After Append(Append(e1, e2), e3) over the first three errors of
\* ListPool: the two-member list filled its array, the three-member list
\* lies in a grown array of capacity four.
InitShared ==
    /\ heap = ListPool
    /\ arrays = << <<Ptr(1), Ptr(2)>>, <<Ptr(1), Ptr(2), Ptr(3), Nil>> >>
    /\ vals = {Ptr(a) : a \in 1 .. Len(ListPool)}
                 \cup {ErrorList(1, 2, 2), ErrorList(2, 3, 4)}
    /\ last = NoCall
    /\ calls = 0
    /\ procs = NoProcs

NextShared ==
    \/ \E e1 \in {v \in vals : IsList(v)}, e2 \in vals : errkit_Append(e1, e2)
    \/ \E e \in vals : Wrap(e, "not found", <<>>)

SpecShared == InitShared /\ [][NextShared]_vars

\* C28: no Append changes the members of a list the program already holds,
\* be it an argument of the call or the result of an earlier call.
C28_AsClaimed ==
    [][ \A v \in vals :
           IsList(v) => Members(arrays', v) = Members(arrays, v) ]_vars

\* The values an error value links to: the embedded base error and the
\* cause of an object, the members of a list.
Links(v) ==
    IF v.k = "ptr" THEN {heap[v.p].error, heap[v.p].cause} \ {Nil}
    ELSE IF v.k = "list" THEN {arrays[v.p][i] : i \in 1 .. v.n}
    ELSE {}

RECURSIVE ReachableFrom(_)
\* Every value reached from the values of S by following links.
ReachableFrom(S) ==
    LET T == S \cup UNION {Links(x) : x \in S}
    IN  IF T = S THEN S ELSE ReachableFrom(T)

\* C30: no error value the program holds is reached from itself by
\* following cause links, base errors and list members, and Unwrap of an
\* error without a cause is nil.
C30_AsClaimed ==
    \A v \in vals :
        /\ v \notin ReachableFrom(Links(v))
        /\ (IsErrkitError(v) /\ heap[v.p].cause = Nil) => Unwrap(heap, v) = Nil

(***************************************************************************)
(* The collector pattern of TestStackViaGoroutine: three workers, a closer *)
(* and the collecting goroutine, over a mutex, a wait group and an         *)
(* unbuffered channel.  A step is one statement of one goroutine.          *)
(***************************************************************************)
Workers == 1 .. 3

\* sentinelErr := errkit.NewSentinelErr("Sentinel error"); no goroutine is
\* started, the collecting goroutine is about to call wg.Add(3).
InitCollector ==
    /\ heap = << errorString("Sentinel error") >>
    /\ arrays = <<>>
    /\ vals = {Ptr(1)}
    /\ last = NoCall
    /\ calls = 0
    /\ procs = [NoProcs EXCEPT !.worker = [id \in Workers |-> "unborn"],
                               !.main = "add"]

\* wg.Add(3)
MainAdd ==
    /\ procs.main = "add"
    /\ procs' = [procs EXCEPT !.wg = 3, !.main = "go"]
    /\ UNCHANGED <<heap, arrays, vals, last, calls>>

\* go performOperation(id), in the order of the go statements.
MainGo(id) ==
    /\ procs.main = "go"
    /\ procs.worker[id] = "unborn"
    /\ \A other \in Workers : other < id => procs.worker[other] # "unborn"
    /\ procs' = [procs EXCEPT !.worker[id] = "start"]
    /\ UNCHANGED <<heap, arrays, vals, last, calls>>

\* go func() { wg.Wait(); close(errCh) }(), after the three workers.
MainGoCloser ==
    /\ procs.main = "go"
    /\ \A id \in Workers : procs.worker[id] # "unborn"
    /\ procs' = [procs EXCEPT !.closer = "wait", !.main = "range"]
    /\ UNCHANGED <<heap, arrays, vals, last, calls>>

WorkerStart_returnsAtOnce(id) ==
    /\ procs.worker[id] = "start"
    /\ procs' = [procs EXCEPT !.worker[id] = IF id # 2 THEN "lock" ELSE "done"]
    /\ UNCHANGED <<heap, arrays, vals, last, calls>>

\* defer wg.Done(); if id != 2 { ... }: worker 2 has only the deferred
\* wg.Done() left.
WorkerStart(id) ==
    /\ procs.worker[id] = "start"
    /\ procs' = [procs EXCEPT !.worker[id] = IF id # 2 THEN "lock" ELSE "wgDone"]
    /\ UNCHANGED <<heap, arrays, vals, last, calls>>

\* lock.Lock(); defer lock.Unlock()
WorkerLock(id) ==
    /\ procs.worker[id] = "lock"
    /\ procs.lock = 0
    /\ procs' = [procs EXCEPT !.lock = id, !.worker[id] = "record"]
    /\ UNCHANGED <<heap, arrays, vals, last, calls>>

\* orderedFailures = append(orderedFailures, id)
WorkerRecord(id) ==
    /\ procs.worker[id] = "record"
    /\ procs' = [procs EXCEPT !.orderedFailures = Append(@, id),
                              !.worker[id] = "send"]
    /\ UNCHANGED <<heap, arrays, vals, last, calls>>

\* errCh <- errkit.WithStack(sentinelErr, "id", id): the error is built and
\* the goroutine waits for the receiver; a send on a closed channel panics.
WorkerSend(id) ==
    /\ procs.worker[id] = "send"
    /\ heap' = Append(heap, newError(Ptr(1), Caller,
                                     <<AnyString("id"), AnyInt(id)>>))
    /\ vals' = vals \cup {Ptr(Len(heap) + 1)}
    /\ procs' = IF procs.closed
                THEN [procs EXCEPT !.panicked = TRUE, !.worker[id] = "panic"]
                ELSE [procs EXCEPT !.offer = Ptr(Len(heap) + 1),
                                   !.sender = id, !.sent = @ + 1,
                                   !.worker[id] = "sending"]
    /\ UNCHANGED <<arrays, last, calls>>

\* for err := range errCh: the receive that meets a waiting send; the
\* sender goes on to its deferred calls.
MainReceive ==
    /\ procs.main = "range"
    /\ procs.offer # Nil
    /\ procs' = [procs EXCEPT !.err = procs.offer, !.offer = Nil,
                              !.got = @ + 1,
                              !.worker[procs.sender] = "unlock",
                              !.sender = 0, !.main = "append"]
    /\ UNCHANGED <<heap, arrays, vals, last, calls>>

\* result = errkit.Append(result, err)
MainAppend ==
    /\ procs.main = "append"
    /\ LET r == AppendResult(arrays, procs.result, procs.err)
       IN  /\ arrays' = r.arrays
           /\ vals' = vals \cup ({r.ret} \ {Nil})
           /\ procs' = [procs EXCEPT !.result = r.ret, !.main = "range"]
    /\ UNCHANGED <<heap, last, calls>>

\* The range loop ends on the closed channel; return result.
MainReturn ==
    /\ procs.main = "range"
    /\ procs.offer = Nil
    /\ procs.closed
    /\ procs' = [procs EXCEPT !.main = "done"]
    /\ last' = Call("doOperationsConcurrently", Nil, Nil, "", <<>>, procs.result)
    /\ UNCHANGED <<heap, arrays, vals, calls>>

\* The deferred lock.Unlock()
WorkerUnlock(id) ==
    /\ procs.worker[id] = "unlock"
    /\ procs' = [procs EXCEPT !.lock = 0, !.worker[id] = "wgDone"]
    /\ UNCHANGED <<heap, arrays, vals, last, calls>>

\* The deferred wg.Done()
WorkerDone(id) ==
    /\ procs.worker[id] = "wgDone"
    /\ procs' = [procs EXCEPT !.wg = @ - 1, !.worker[id] = "done"]
    /\ UNCHANGED <<heap, arrays, vals, last, calls>>

\* wg.Wait()
CloserWait ==
    /\ procs.closer = "wait"
    /\ procs.wg = 0
    /\ procs' = [procs EXCEPT !.closer = "close"]
    /\ UNCHANGED <<heap, arrays, vals, last, calls>>

\* close(errCh); closing a closed channel panics.
CloserClose ==
    /\ procs.closer = "close"
    /\ procs' = [procs EXCEPT !.closed = TRUE, !.closes = @ + 1,
                              !.panicked = @ \/ procs.closed,
                              !.closer = "done"]
    /\ UNCHANGED <<heap, arrays, vals, last, calls>>

Worker(id) ==
    \/ WorkerStart(id)
    \/ WorkerLock(id)
    \/ WorkerRecord(id)
    \/ WorkerSend(id)
    \/ WorkerUnlock(id)
    \/ WorkerDone(id)

Closer == CloserWait \/ CloserClose

Main ==
    \/ MainAdd
    \/ \E id \in Workers : MainGo(id)
    \/ MainGoCloser
    \/ MainReceive
    \/ MainAppend
    \/ MainReturn

NextCollector ==
    \/ MainAdd
    \/ \E id \in Workers : MainGo(id)
    \/ MainGoCloser
    \/ \E id \in Workers : WorkerStart(id)
    \/ \E id \in Workers : WorkerLock(id)
    \/ \E id \in Workers : WorkerRecord(id)
    \/ \E id \in Workers : WorkerSend(id)
    \/ MainReceive
    \/ MainAppend
    \/ MainReturn
    \/ \E id \in Workers : WorkerUnlock(id)
    \/ \E id \in Workers : WorkerDone(id)
    \/ CloserWait
    \/ CloserClose

SpecCollector == InitCollector /\ [][NextCollector]_vars

\* The Go scheduler runs every goroutine that can take a step.
SpecCollectorFair ==
    /\ SpecCollector
    /\ \A id \in Workers : WF_vars(Worker(id))
    /\ WF_vars(Closer)
    /\ WF_vars(Main)

\* doOperationsConcurrently has returned.
HasReturned == procs.main = "done"

\* C23: in every interleaving the collector returns an ErrorList of exactly
\* two members that matches the sentinel, whose text is the array of the
\* sentinel's message twice, and whose member i carries the id of the i-th
\* worker to record its failure.
C23_CollectorResult ==
    HasReturned =>
        LET result == last.ret
        IN  /\ IsList(result)
            /\ result.n = 2
            /\ Is(heap, arrays, result, Ptr(1))
            /\ Error(heap, arrays, result) =
                  "[\"Sentinel error\",\"Sentinel error\"]"
            /\ Len(procs.orderedFailures) = 2
            /\ \A i \in 1 .. 2 :
                  /\ IsErrkitError(arrays[result.p][i])
                  /\ Details(heap, arrays[result.p][i]).kv =
                        "id" :> AnyInt(procs.orderedFailures[i])

\* Worker 3 recorded its failure before worker 1, and the list came back in
\* that order.
C23_Witness ==
    /\ HasReturned
    /\ procs.orderedFailures = <<3, 1>>
    /\ IsList(last.ret)
    /\ Details(heap, arrays[last.ret.p][1]).kv = "id" :> AnyInt(3)

AllDone ==
    /\ HasReturned
    /\ procs.closer = "done"
    /\ \A id \in Workers : procs.worker[id] = "done"

\* No send on a closed channel and no second close; once the channel is
\* closed every worker has returned and every send was received.
ChannelUsedSafely ==
    /\ ~procs.panicked
    /\ procs.closes <= 1
    /\ procs.closed =>
          /\ procs.closes = 1
          /\ procs.offer = Nil
          /\ procs.got = procs.sent
          /\ \A id \in Workers : procs.worker[id] = "done"

\* C27: under fair scheduling every execution of the collector pattern
\* ends with all five goroutines returned and the channel closed once; the
\* channel is closed only after every send was received, and nothing is
\* sent on it once closed.
C27_CollectorTerminates ==
    /\ []ChannelUsedSafely
    /\ <>(AllDone /\ procs.closes = 1 /\ procs.got = 2)

\* Everything has returned, after two sends were received.
C27_Witness ==
    /\ AllDone
    /\ procs.closed
    /\ procs.sent = 2
    /\ procs.got = 2
    /\ procs.lock = 0
    /\ procs.wg = 0

====
